---- MODULE Spec2Model ----
(***************************************************************************)
(* The reply cycle of the WhatsApp feedback-intake service:                *)
(*   routes/reply.py  reply_user           (the HTTP handler)              *)
(*   ChatService      reply_user, get_reply_message,                       *)
(*                    get_user_unresolved_session_message,                 *)
(*                    mark_session_as_completed, mark_session_as_limited,  *)
(*                    save_chat_message, download_media_files, ...         *)
(*   LLM              analyze_conversation                                 *)
(* The DynamoDB tables (sessions, chats), the SQL feedback table, Twilio,  *)
(* S3 and the OpenAI endpoint are the environment: every call to them      *)
(* either succeeds or raises, chosen nondeterministically.                 *)
(***************************************************************************)
EXTENDS Integers, Sequences, FiniteSets, TLC

\* ------------------------------------------------------------------ bounds
MaxCycles == 2          \* reply cycles started in one behaviour
MaxInbound == 1         \* inbound messages the transport stores in one behaviour

Senders == {"15551", "15552"}
Procs == {1, 2}         \* request slots (coroutines / worker processes)

None == "None"          \* Python's None

\* ------------------------------------------------------------------ texts
\* A text is its body (abbreviated for the free texts) and its len().
Text(b, n) == [body |-> b, length |-> n]

SuspensionNotice ==
    Text("We detected misuse of the system, and your access has been temporarily suspended for 1 minute. Thank you for your understanding.", 128)
TooLongReply ==
    Text("Message too long. Please shorten it to under 1000 characters and try again.", 75)
FailedReply == Text("Failed to process your message. Please try again.", 49)
ModelReply == Text("<reply written by the model>", 40)

CharLimit == 1000
max_attempts == 3

InboundTexts == {Text("<user text>", 12), Text("<user text of 1001 characters>", 1001)}

\* ------------------------------------------------------------------ media
\* A Twilio media reference .../Messages/<message_sid>/Media/<media_sid> and
\* the S3 URL upload_to_s3 builds from the same two ids.
TwilioRef(m, e) == <<"api.twilio.com", m, e>>
MediaRefs == {TwilioRef("MM1", "ME1"), TwilioRef("MM1", "ME2")}

NoUrl == <<None, None, None>>      \* None where a URL is expected
upload_to_s3(message_sid, media_sid, ok) ==
    IF ok THEN <<"s3.amazonaws.com/feedback-media", message_sid, media_sid>>
    ELSE NoUrl

IsDurableUrl(u) == u[1] = "s3.amazonaws.com/feedback-media"

\* ------------------------------------------------------------ Python dicts
\* A dict is a function on its keys; d.get(k, default):
Get(d, k, default) == IF k \in DOMAIN d THEN d[k] ELSE default
\* d[k] = v
Put(d, k, v) == [x \in DOMAIN d \cup {k} |-> IF x = k THEN v ELSE d[x]]
EmptyDict == [x \in {} |-> None]

\* download_single_media(url): ok is whether the Twilio lookup, the download
\* and the S3 upload all went through; every failure is caught and gives None
\* (the empty dict here: both are falsy).
download_single_media(url, ok) ==
    LET s3_url == upload_to_s3(url[2], url[3], ok)
    IN  IF s3_url # NoUrl THEN [s3_url |-> s3_url] ELSE EmptyDict

SafetyFlags == {"is_x_rated_conversation", "is_crime_rated_conversation",
                "is_immoral_conversation", "is_irrelevant"}

\* --------------------------------------------------- llm_service.py: LLM
\* Mutant: both fixed decisions ask for their reply to be persisted.
FixedDecision_Persisted(reply, persist) ==
    [is_product_name_present |-> FALSE, is_feedback_present |-> FALSE,
     did_user_confirm_media_availability |-> FALSE, is_media_present |-> FALSE,
     reply |-> reply, product_name |-> "", feedback |-> "", media_url |-> "",
     is_feedback_session_complete |-> FALSE,
     is_x_rated_conversation |-> FALSE, is_crime_rated_conversation |-> FALSE,
     is_immoral_conversation |-> FALSE, is_too_short |-> FALSE,
     is_irrelevant |-> FALSE, should_persist_reply |-> TRUE]

\* The two fixed decisions analyze_conversation returns without a model result.
FixedDecision(reply, persist) ==
    [is_product_name_present |-> FALSE, is_feedback_present |-> FALSE,
     did_user_confirm_media_availability |-> FALSE, is_media_present |-> FALSE,
     reply |-> reply, product_name |-> "", feedback |-> "", media_url |-> "",
     is_feedback_session_complete |-> FALSE,
     is_x_rated_conversation |-> FALSE, is_crime_rated_conversation |-> FALSE,
     is_immoral_conversation |-> FALSE, is_too_short |-> FALSE,
     is_irrelevant |-> FALSE, should_persist_reply |-> persist]

TooLongDecision == FixedDecision(TooLongReply, TRUE)
FallbackDecision == FixedDecision(FailedReply, FALSE)

\* "now + 1 minute" as the classifier computes it, and a timestamp the model
\* may itself have written into its JSON.
NowPlusOneMinute == "now+1min"
ModelTimestamp == "timestamp from the model"

\* Mutant: the length test applied to inbound entries only.
ExceedsCharLimit_InboundOnly(messages) ==
    \E i \in 1..Len(messages) :
        /\ messages[i].type = "text"
        /\ messages[i].direction = "inbound"
        /\ messages[i].text.length > CharLimit

\* for msg in messages: type == "text" and text and len(text) > 1000
ExceedsCharLimit(messages) ==
    \E i \in 1..Len(messages) :
        /\ messages[i].type = "text"
        /\ messages[i].text.length > 0
        /\ messages[i].text.length > CharLimit

\* One attempt of client.chat.completions.create, as the provider answers it.
Response(parseable, json) ==
    [kind |-> "response", status_code |-> 200, parseable |-> parseable, json |-> json]
ProviderError(kind, status_code) ==
    [kind |-> kind, status_code |-> status_code, parseable |-> FALSE, json |-> EmptyDict]
RateLimitError == ProviderError("RateLimitError", 429)
APIStatus429 == ProviderError("APIStatusError", 429)
APIStatus500 == ProviderError("APIStatusError", 500)
ConnectionError == ProviderError("Exception", 0)

\* Mutant: the last attempt of the loop is never made.
RECURSIVE CreateWithRetry_TwoAttempts(_, _)
CreateWithRetry_TwoAttempts(outcomes, attempt_index) ==
    LET o == outcomes[attempt_index + 1]
        retry == attempt_index < max_attempts - 2
    IN  IF o.kind = "response"
        THEN [raised |-> FALSE, response |-> o, calls |-> attempt_index + 1]
        ELSE IF o.status_code = 429 /\ retry
        THEN CreateWithRetry_TwoAttempts(outcomes, attempt_index + 1)
        ELSE [raised |-> TRUE, response |-> o, calls |-> attempt_index + 1]

\* Mutant: every provider error is retried while attempts remain.
RECURSIVE CreateWithRetry_RetryAny(_, _)
CreateWithRetry_RetryAny(outcomes, attempt_index) ==
    LET o == outcomes[attempt_index + 1]
        retry == attempt_index < max_attempts - 1
    IN  IF o.kind = "response"
        THEN [raised |-> FALSE, response |-> o, calls |-> attempt_index + 1]
        ELSE IF retry
        THEN CreateWithRetry_RetryAny(outcomes, attempt_index + 1)
        ELSE [raised |-> TRUE, response |-> o, calls |-> attempt_index + 1]

\* The retry loop, from attempt_index on: the response it leaves the loop with
\* or the exception it re-raises, and how many calls were made.
RECURSIVE CreateWithRetry(_, _)
CreateWithRetry(outcomes, attempt_index) ==
    LET o == outcomes[attempt_index + 1]
        retry == attempt_index < max_attempts - 1
    IN  IF o.kind = "response"
        THEN [raised |-> FALSE, response |-> o, calls |-> attempt_index + 1]
        ELSE IF o.kind = "RateLimitError" /\ retry
        THEN CreateWithRetry(outcomes, attempt_index + 1)
        ELSE IF o.kind = "APIStatusError" /\ o.status_code = 429 /\ retry
        THEN CreateWithRetry(outcomes, attempt_index + 1)
        ELSE [raised |-> TRUE, response |-> o, calls |-> attempt_index + 1]

AnyFlag(result) == \E f \in SafetyFlags : Get(result, f, FALSE)

\* Mutant: user_limited_until and reopen_session written with setdefault, so
\* that what the model wrote under those keys stays.
PostProcess_SetDefault(result) ==
    IF AnyFlag(result)
    THEN Put(Put(result, "should_persist_reply", FALSE), "reply", SuspensionNotice)
         @@ [user_limited_until |-> NowPlusOneMinute, reopen_session |-> TRUE]
    ELSE result

\* The override applied to a parsed model result.
PostProcess(result) ==
    IF AnyFlag(result)
    THEN Put(Put(Put(Put(result,
             "should_persist_reply", FALSE),
             "reply", SuspensionNotice),
             "user_limited_until", NowPlusOneMinute),
             "reopen_session", TRUE)
    ELSE result

\* Mutant: no length pre-filter, every history goes to the model.
analyze_conversation_NoPrefilter(messages, outcomes) ==
    LET r == CreateWithRetry(outcomes, 0)
    IN  IF r.raised \/ ~r.response.parseable
        THEN [result |-> FallbackDecision, calls |-> r.calls, kind |-> "fallback"]
        ELSE [result |-> PostProcess(r.response.json), calls |-> r.calls,
              kind |-> IF AnyFlag(r.response.json) THEN "suspended" ELSE "model"]

\* analyze_conversation(messages) when the provider answers the successive
\* attempts with outcomes[1], outcomes[2], ...: the decision returned, the
\* number of model calls made, and which return statement produced it.
analyze_conversation(messages, outcomes) ==
    IF ExceedsCharLimit(messages)
    THEN [result |-> TooLongDecision, calls |-> 0, kind |-> "too_long"]
    ELSE LET r == CreateWithRetry(outcomes, 0)
         IN  IF r.raised \/ ~r.response.parseable
             THEN [result |-> FallbackDecision, calls |-> r.calls, kind |-> "fallback"]
             ELSE [result |-> PostProcess(r.response.json), calls |-> r.calls,
                   kind |-> IF AnyFlag(r.response.json) THEN "suspended" ELSE "model"]

\* What the model may answer (the parsed JSON object).  The prompt asks for
\* the content fields; should_persist_reply, reopen_session and
\* user_limited_until are keys the orchestrator reads and the model is free
\* to write or leave out.
FlagChoice(on) == [f \in SafetyFlags |-> f \in on]
Payloads ==
    {[is_feedback_session_complete |-> FALSE, product_name |-> "",
      feedback |-> "", media_urls |-> <<>>]}
    \cup {[is_feedback_session_complete |-> TRUE, product_name |-> "AirPods Pro",
           feedback |-> "it's great", media_urls |-> m] :
              m \in {<<>>, <<TwilioRef("MM1", "ME1"), TwilioRef("MM1", "ME2")>>}}
OptionalKeys(persists, reopens, limits) ==
    {a @@ b @@ c :
        a \in {EmptyDict} \cup {[should_persist_reply |-> v] : v \in persists},
        b \in {EmptyDict} \cup {[reopen_session |-> v] : v \in reopens},
        c \in {EmptyDict} \cup {[user_limited_until |-> v] : v \in limits}}
ModelJson(flagsets, persists, reopens, limits) ==
    {[reply |-> ModelReply] @@ FlagChoice(on) @@ pl @@ opt :
        on \in flagsets, pl \in Payloads,
        opt \in OptionalKeys(persists, reopens, limits)}

\* The answers drawn in a reply cycle: what the prompt asks for, alone or with
\* one of the three keys added.
ModelOutputs ==
    {j \in ModelJson({{}, {"is_irrelevant"}}, {FALSE}, {TRUE}, {ModelTimestamp}) :
        Cardinality(DOMAIN j \cap {"should_persist_reply", "reopen_session",
                                   "user_limited_until"}) <= 1}

\* The provider's answers to the attempts of one classifier invocation:
\* k rate-limit answers, then a final one.
Repeat(x, k) == [i \in 1..k |-> x]
Pad(seq) == seq \o Repeat(ConnectionError, max_attempts - Len(seq))
ProviderRuns ==
    {Pad(Repeat(e, k) \o <<last>>) :
        e \in {RateLimitError, APIStatus429}, k \in 0..(max_attempts - 1),
        last \in {Response(TRUE, j) : j \in ModelOutputs}
                 \cup {Response(FALSE, EmptyDict), RateLimitError, APIStatus500,
                       ConnectionError}}

\* ------------------------------------------------------------------ state
VARIABLES
    sessions,        \* the sessions table: session_id i is row i, in creation order
    chats,           \* the chats table, in creation order
    feedbacks,       \* the feedback table
    feedback_origin, \* per feedback row: the cycle that wrote it, the handle it
                     \* wrote through and how each relay of its media ended
                     \* (history)
    db,              \* chat_service.db, the handle the route last injected
    cycles,          \* reply cycles started so far
    pc,              \* per request: where it stands
    sender_id,       \* per request: request.sender_id
    session_id,      \* per request: get_reply_message's session_id
    step1,           \* per request: what step 1 saw and did (history)
    messages,        \* per request: conversation["messages"]
    result,          \* per request: the classifier's decision
    branch,          \* per request: which return of analyze_conversation gave it
    tasks,           \* per request: the step-6 awaitables not yet finished
    outcome,         \* per request: how each finished step-6 awaitable ended
    given,           \* classifier specification: the input drawn
    returned,        \* classifier specification: what analyze_conversation gave
    reopen_decided   \* some decision so far had reopen_session true (history)

store == <<sessions, chats, feedbacks, feedback_origin>>
cycle == <<pc, sender_id, session_id, step1, messages, result, branch, tasks, outcome>>
classifier == <<given, returned>>
vars == <<sessions, chats, feedbacks, feedback_origin, db, cycles, pc, sender_id, session_id,
          step1, messages, result, branch, tasks, outcome, given, returned, reopen_decided>>

NoStep1 == [had_session |-> FALSE, had_active |-> FALSE, resolved |-> 0, created |-> FALSE]

\* The tables outlive the service: it starts on empty tables, or on tables an
\* earlier run left with one active session of a sender that holds one
\* inbound message.
SeedSender == "15552"
InitTables ==
    \/ /\ sessions = <<>>
       /\ chats = <<>>
    \/ /\ sessions = <<[sender_id |-> SeedSender, status |-> "active",
                        user_limited_until |-> None]>>
       /\ chats = <<[sender_id |-> SeedSender, session_id |-> 1, chat_type |-> "inbound",
                     text |-> Text("<user text>", 12), media_items |-> <<>>]>>

\* The service after bootstrap_services: no request in flight.
InitService ==
    /\ InitTables
    /\ feedbacks = <<>>
    /\ feedback_origin = <<>>
    /\ db = 0
    /\ cycles = 0
    /\ pc = [p \in Procs |-> "idle"]
    /\ sender_id = [p \in Procs |-> None]
    /\ session_id = [p \in Procs |-> 0]
    /\ step1 = [p \in Procs |-> NoStep1]
    /\ messages = [p \in Procs |-> <<>>]
    /\ result = [p \in Procs |-> EmptyDict]
    /\ branch = [p \in Procs |-> None]
    /\ tasks = [p \in Procs |-> {}]
    /\ outcome = [p \in Procs |-> EmptyDict]
    /\ reopen_decided = FALSE

Init ==
    /\ InitService
    /\ given = EmptyDict
    /\ returned = EmptyDict

\* ------------------------------------------------------- the session store
Max(S) == CHOOSE m \in S : \A x \in S : x <= m
SenderSessions(s) == {i \in 1..Len(sessions) : sessions[i].sender_id = s}
ActiveSessions(s) == {i \in SenderSessions(s) : sessions[i].status = "active"}

\* session_table.query(SenderSessionsIndex, sender_id = s, Filter status =
\* "active", ScanIndexForward=False, Limit=1): the session ids it may answer
\* with, 0 for no Items.  The store applies Limit to the items it reads, before
\* the filter, so it answers with the sender's newest session if that one is
\* active; a store that filtered first would answer with the newest active one.
QueryActiveSession(s) ==
    LET all == SenderSessions(s)
        act == ActiveSessions(s)
    IN  {IF all # {} /\ Max(all) \in act THEN Max(all) ELSE 0,
         IF act # {} THEN Max(act) ELSE 0}

\* chat_table.query(SessionIndex, session_id = sid), every page, ascending.
SessionChats(sid) == SelectSeq(chats, LAMBDA c : c.session_id = sid)

NoText == Text("", 0)
\* One chat row as the flat entries handed to the classifier.
RECURSIVE MediaEntries(_, _)
MediaEntries(media_items, direction) ==
    IF media_items = <<>> THEN <<>>
    ELSE <<[type |-> "media", url |-> Head(media_items), direction |-> direction]>>
         \o MediaEntries(Tail(media_items), direction)
RowEntries(msg) ==
    LET direction == IF msg.chat_type = "inbound" THEN "inbound" ELSE "outbound"
    IN  (IF msg.text.length > 0
         THEN <<[type |-> "text", text |-> msg.text, direction |-> direction]>>
         ELSE <<>>)
        \o MediaEntries(msg.media_items, direction)
RECURSIVE Transformed(_)
Transformed(msgs) ==
    IF msgs = <<>> THEN <<>> ELSE RowEntries(Head(msgs)) \o Transformed(Tail(msgs))

\* Mutant: the new row written with a status the query does not filter on.
NewSession_Open(s) == [sender_id |-> s, status |-> "open", user_limited_until |-> None]
NewSession(s) == [sender_id |-> s, status |-> "active", user_limited_until |-> None]

\* -------------------------------------------------------------- the cycle
InFlight == {q \in Procs : pc[q] # "idle"}

\* routes/reply.py reply_user: inject this request's handle, call reply_user.
route_reply_user(p, s) ==
    /\ pc[p] = "idle"
    /\ cycles < MaxCycles
    /\ cycles' = cycles + 1
    /\ db' = p
    /\ pc' = [pc EXCEPT ![p] = "get_session"]
    /\ sender_id' = [sender_id EXCEPT ![p] = s]
    /\ step1' = [step1 EXCEPT ![p] =
                    [NoStep1 EXCEPT !.had_session = SenderSessions(s) # {}]]
    /\ UNCHANGED <<store, session_id, messages, result, branch, tasks, outcome, classifier, reopen_decided>>

\* A store call that raises: the exception leaves get_reply_message and
\* reply_user (which logs and re-raises).
Raise(p) == pc' = [pc EXCEPT ![p] = "raised"]

\* get_user_unresolved_session_message, and lines 337 and 352 on its result.
Conversation(s, sid) ==
    IF sid = 0 \/ SessionChats(sid) = <<>>
    THEN [found |-> FALSE, session_id |-> 0, messages |-> <<>>]
    ELSE [found |-> TRUE, session_id |-> sid, messages |-> Transformed(SessionChats(sid))]

get_user_unresolved_session_message(p) ==
    /\ pc[p] = "get_session"
    /\ \/ /\ Raise(p)
          /\ UNCHANGED <<session_id, step1, messages>>
       \/ \E sid \in QueryActiveSession(sender_id[p]) :
            LET conversation == Conversation(sender_id[p], sid)
            IN  /\ step1' = [step1 EXCEPT ![p].had_active = ActiveSessions(sender_id[p]) # {},
                                          ![p].resolved = conversation.session_id]
                /\ session_id' = [session_id EXCEPT ![p] = conversation.session_id]
                /\ messages' = [messages EXCEPT ![p] = conversation.messages]
                /\ pc' = [pc EXCEPT ![p] =
                            IF conversation.found THEN "analyze" ELSE "put_session"]
    /\ UNCHANGED <<store, db, cycles, sender_id, result, branch, tasks, outcome, classifier, reopen_decided>>

\* get_reply_message, lines 338-350: no conversation, so put a new session.
put_session(p) ==
    /\ pc[p] = "put_session"
    /\ \/ /\ Raise(p)
          /\ UNCHANGED <<sessions, session_id, step1>>
       \/ /\ sessions' = Append(sessions, NewSession(sender_id[p]))
          /\ session_id' = [session_id EXCEPT ![p] = Len(sessions) + 1]
          /\ step1' = [step1 EXCEPT ![p].resolved = Len(sessions) + 1,
                                    ![p].created = TRUE]
          /\ pc' = [pc EXCEPT ![p] = "analyze"]
    /\ UNCHANGED <<chats, feedbacks, feedback_origin, db, cycles, sender_id, messages, result,
                   branch, tasks, outcome, classifier, reopen_decided>>

\* Mutant: the reply is not read from the decision.
Reply_Empty(r) == NoText

\* get_reply_message, lines 355-369: what it reads from the decision.
Reply(r) == Get(r, "reply", NoText)
ShouldPersistReply(r) == Get(r, "should_persist_reply", TRUE)
IsComplete(r) == Get(r, "is_feedback_session_complete", FALSE)
UserLimitedUntil(r) == Get(r, "user_limited_until", None)
ReopenSession(r) == Get(r, "reopen_session", FALSE)
FeedbackData(r) ==
    IF IsComplete(r)
    THEN [product_name |-> Get(r, "product_name", ""),
          feedback_text |-> Get(r, "feedback", ""),
          media_urls |-> Get(r, "media_urls", <<>>)]
    ELSE EmptyDict

\* Mutant: step 6 follows the classifier at once, the session writes are
\* left out.
AfterAnalyze_Skip(r) == "reply_user"

\* The next store call of step 4 (lines 371-376) after the one named.
AfterReopen(r) == IF UserLimitedUntil(r) # None THEN "mark_limited" ELSE "reply_user"
AfterCompleted(r) == IF ReopenSession(r) THEN "reopen" ELSE AfterReopen(r)
AfterAnalyze(r) == IF IsComplete(r) THEN "mark_completed" ELSE AfterCompleted(r)

\* Line 354: await self.llm.analyze_conversation(messages).
await_analyze_conversation(p) ==
    /\ pc[p] = "analyze"
    /\ \E run \in ProviderRuns :
         LET a == analyze_conversation(messages[p], run)
         IN  /\ result' = [result EXCEPT ![p] = a.result]
             /\ branch' = [branch EXCEPT ![p] = a.kind]
             /\ pc' = [pc EXCEPT ![p] = AfterAnalyze(a.result)]
             /\ reopen_decided' = (reopen_decided \/ ReopenSession(a.result))
    /\ messages' = [messages EXCEPT ![p] = <<>>]
    /\ UNCHANGED <<store, db, cycles, sender_id, session_id, step1, tasks, outcome, classifier>>

\* Mutant: the status update is lost (the row keeps its status).
mark_session_as_completed_Lost(tbl, sender, sid, reopen_session) ==
    IF reopen_session
    THEN [table |-> Append(tbl, [sender_id |-> sender, status |-> "active",
                                 user_limited_until |-> None]),
          id |-> Len(tbl) + 1]
    ELSE [table |-> tbl, id |-> sid]

\* Mutant: the update is keyed on the sender's newest session, not on sid.
mark_session_as_completed_Newest(tbl, sender, sid, reopen_session) ==
    IF reopen_session
    THEN [table |-> Append(tbl, [sender_id |-> sender, status |-> "active",
                                 user_limited_until |-> None]),
          id |-> Len(tbl) + 1]
    ELSE [table |-> [tbl EXCEPT ![Len(tbl)].status = "completed"], id |-> sid]

\* Mutant: reopening returns the id it was given, not the new one.
mark_session_as_completed_KeepsId(tbl, sender, sid, reopen_session) ==
    IF reopen_session
    THEN [table |-> Append(tbl, [sender_id |-> sender, status |-> "active",
                                 user_limited_until |-> None]),
          id |-> sid]
    ELSE [table |-> [tbl EXCEPT ![sid].status = "completed"], id |-> sid]

\* mark_session_as_completed(sender_id, session_id, reopen_session) on the
\* sessions table tbl: the table afterwards and the id returned.
mark_session_as_completed(tbl, sender, sid, reopen_session) ==
    IF reopen_session
    THEN [table |-> Append(tbl, NewSession(sender)), id |-> Len(tbl) + 1]
    ELSE [table |-> [tbl EXCEPT ![sid].status = "completed"], id |-> sid]

\* mark_session_as_limited(session_id, user_limited_until)
mark_session_as_limited(tbl, sid, until) ==
    [tbl EXCEPT ![sid].user_limited_until = until]

\* Lines 371-372.
complete_session(p) ==
    /\ pc[p] = "mark_completed"
    /\ \/ /\ Raise(p)
          /\ UNCHANGED sessions
       \/ /\ sessions' = mark_session_as_completed(
                             sessions, sender_id[p], session_id[p], FALSE).table
          /\ pc' = [pc EXCEPT ![p] = AfterCompleted(result[p])]
    /\ UNCHANGED <<chats, feedbacks, feedback_origin, db, cycles, sender_id, session_id, step1,
                   messages, result, branch, tasks, outcome, classifier, reopen_decided>>

\* Mutant: a reopen that fails puts the resolved session back to active.
reopen_session_Rollback(p) ==
    /\ pc[p] = "reopen"
    /\ \/ /\ pc' = [pc EXCEPT ![p] = "raised"]
          /\ sessions' = [sessions EXCEPT ![step1[p].resolved].status = "active"]
          /\ UNCHANGED session_id
       \/ /\ sessions' = Append(sessions, [sender_id |-> sender_id[p], status |-> "active",
                                            user_limited_until |-> None])
          /\ session_id' = [session_id EXCEPT ![p] = Len(sessions) + 1]
          /\ pc' = [pc EXCEPT ![p] = IF Get(result[p], "user_limited_until", None) # None
                                     THEN "mark_limited" ELSE "reply_user"]
    /\ UNCHANGED <<chats, feedbacks, feedback_origin, db, cycles, sender_id, step1, messages,
                   result, branch, tasks, outcome, classifier, reopen_decided>>

\* Lines 373-374.
reopen_session(p) ==
    /\ pc[p] = "reopen"
    /\ \/ /\ Raise(p)
          /\ UNCHANGED <<sessions, session_id>>
       \/ LET m == mark_session_as_completed(sessions, sender_id[p], session_id[p], TRUE)
          IN  /\ sessions' = m.table
              /\ session_id' = [session_id EXCEPT ![p] = m.id]
              /\ pc' = [pc EXCEPT ![p] = AfterReopen(result[p])]
    /\ UNCHANGED <<chats, feedbacks, feedback_origin, db, cycles, sender_id, step1, messages,
                   result, branch, tasks, outcome, classifier, reopen_decided>>

\* Mutant: the marker is written onto the session resolved in step 1.
limit_session_Resolved(p) ==
    /\ pc[p] = "mark_limited"
    /\ sessions' = [sessions EXCEPT ![step1[p].resolved].user_limited_until =
                                        Get(result[p], "user_limited_until", None)]
    /\ pc' = [pc EXCEPT ![p] = "reply_user"]
    /\ UNCHANGED <<chats, feedbacks, feedback_origin, db, cycles, sender_id, session_id, step1,
                   messages, result, branch, tasks, outcome, classifier, reopen_decided>>

\* Lines 375-376.
limit_session(p) ==
    /\ pc[p] = "mark_limited"
    /\ \/ /\ Raise(p)
          /\ UNCHANGED sessions
       \/ /\ sessions' = mark_session_as_limited(
                             sessions, session_id[p], UserLimitedUntil(result[p]))
          /\ pc' = [pc EXCEPT ![p] = "reply_user"]
    /\ UNCHANGED <<chats, feedbacks, feedback_origin, db, cycles, sender_id, session_id, step1,
                   messages, result, branch, tasks, outcome, classifier, reopen_decided>>

\* ---------------------------------------------------- reply_user, step 6
\* Mutant: the feedback task is gathered whatever the decision says.
GatherTasks_AlwaysFeedback(r) ==
    {"send_whatsapp_message", "download_media_files"}
    \cup (IF Get(r, "should_persist_reply", TRUE) THEN {"save_chat_message"} ELSE {})

\* Mutant: the reply is saved whatever should_persist_reply says.
GatherTasks_AlwaysSave(r) ==
    {"send_whatsapp_message", "save_chat_message"}
    \cup (IF Get(r, "is_feedback_session_complete", FALSE)
          THEN {"download_media_files"} ELSE {})

\* Lines 430-441: the awaitables handed to asyncio.gather.
GatherTasks(r) ==
    {"send_whatsapp_message"}
    \cup (IF ShouldPersistReply(r) THEN {"save_chat_message"} ELSE {})
    \cup (IF IsComplete(r) THEN {"download_media_files"} ELSE {})

\* Lines 415-428: the outbound chat row.
ChatData(sender, sid, reply_message) ==
    [sender_id |-> sender, session_id |-> sid, chat_type |-> "outbound",
     text |-> reply_message, media_items |-> <<>>]

reply_user_gather(p) ==
    /\ pc[p] = "reply_user"
    /\ tasks' = [tasks EXCEPT ![p] = GatherTasks(result[p])]
    /\ pc' = [pc EXCEPT ![p] = "gather"]
    /\ UNCHANGED <<store, db, cycles, sender_id, session_id, step1, messages, result, branch,
                   outcome, classifier, reopen_decided>>

Finished(p, task, how) ==
    /\ tasks' = [tasks EXCEPT ![p] = @ \ {task}]
    /\ outcome' = [outcome EXCEPT ![p] = Put(@, task, how)]

\* send_whatsapp_message(from_number, to_number, reply_message): Twilio
\* accepts the message or raises; the body handed over is kept with the
\* outcome.
send_whatsapp_message(p) ==
    /\ pc[p] = "gather"
    /\ "send_whatsapp_message" \in tasks[p]
    /\ \E ok \in BOOLEAN :
         /\ tasks' = [tasks EXCEPT ![p] = @ \ {"send_whatsapp_message"}]
         /\ outcome' = [outcome EXCEPT ![p] =
                            Put(Put(@, "send_whatsapp_message", IF ok THEN "ok" ELSE "raised"),
                                "reply_message", Reply(result[p]))]
    /\ UNCHANGED <<store, db, cycles, pc, sender_id, session_id, step1, messages, result, branch,
                   classifier, reopen_decided>>

\* Mutant: an exception of the write leaves gather and reply_user.
save_chat_message_Propagates(p) ==
    /\ pc[p] = "gather"
    /\ "save_chat_message" \in tasks[p]
    /\ \/ /\ chats' = Append(chats, [sender_id |-> sender_id[p], session_id |-> session_id[p],
                                      chat_type |-> "outbound",
                                      text |-> Get(result[p], "reply", NoText),
                                      media_items |-> <<>>])
          /\ tasks' = [tasks EXCEPT ![p] = @ \ {"save_chat_message"}]
          /\ outcome' = [outcome EXCEPT ![p] = Put(@, "save_chat_message", "ok")]
          /\ UNCHANGED pc
       \/ /\ UNCHANGED chats
          /\ tasks' = [tasks EXCEPT ![p] = {}]
          /\ outcome' = [outcome EXCEPT ![p] = Put(@, "save_chat_message", "raised")]
          /\ pc' = [pc EXCEPT ![p] = "raised"]
    /\ UNCHANGED <<sessions, feedbacks, feedback_origin, db, cycles, sender_id, session_id,
                   step1, messages, result, branch, classifier, reopen_decided>>

\* save_chat_message(chat_data): chat_table.put_item or an exception.
save_chat_message(p) ==
    /\ pc[p] = "gather"
    /\ "save_chat_message" \in tasks[p]
    /\ \/ /\ chats' = Append(chats,
                         ChatData(sender_id[p], session_id[p], Reply(result[p])))
          /\ Finished(p, "save_chat_message", "ok")
       \/ /\ UNCHANGED chats
          /\ Finished(p, "save_chat_message", "raised")
    /\ UNCHANGED <<sessions, feedbacks, feedback_origin, db, cycles, pc, sender_id, session_id,
                   step1, messages, result, branch, classifier, reopen_decided>>

\* Mutant: the first relay that fails ends the collection.
RECURSIVE SavedUrls_StopAtFailure(_)
SavedUrls_StopAtFailure(results) ==
    IF results = <<>> \/ "s3_url" \notin DOMAIN Head(results) THEN <<>>
    ELSE <<Head(results).s3_url>> \o SavedUrls_StopAtFailure(Tail(results))

\* Line 173: [r.get("s3_url") for r in results if r and r.get("s3_url")]
RECURSIVE SavedUrls(_)
SavedUrls(results) ==
    IF results = <<>> THEN <<>>
    ELSE (IF "s3_url" \in DOMAIN Head(results) THEN <<Head(results).s3_url>> ELSE <<>>)
         \o SavedUrls(Tail(results))

\* Mutant: the relayed URLs replace the references only when some relay
\* succeeded.
FeedbackModelData_KeepRaw(feedback_data, relay_ok) ==
    LET media_urls == Get(feedback_data, "media_urls", <<>>)
        results == [i \in 1..Len(media_urls) |->
                        download_single_media(media_urls[i], relay_ok[i])]
    IN  [sender_id |-> Get(feedback_data, "sender_id", None),
         product_name |-> Get(feedback_data, "product_name", None),
         feedback_text |-> Get(feedback_data, "feedback_text", None),
         media_urls |-> IF Len(SavedUrls(results)) > 0 THEN SavedUrls(results)
                        ELSE media_urls]

\* download_media_files(feedback_data), lines 161-174: the dict handed to
\* save_feedback_data when relay i ends as relay_ok[i] says.
FeedbackModelData(feedback_data, relay_ok) ==
    LET media_urls == Get(feedback_data, "media_urls", <<>>)
        results == [i \in 1..Len(media_urls) |->
                        download_single_media(media_urls[i], relay_ok[i])]
    IN  [sender_id |-> Get(feedback_data, "sender_id", None),
         product_name |-> Get(feedback_data, "product_name", None),
         feedback_text |-> Get(feedback_data, "feedback_text", None),
         media_urls |-> IF Len(media_urls) > 0 THEN SavedUrls(results) ELSE media_urls]

\* Mutant: product_name and feedback_text change places.
save_feedback_data_Swapped(feedback_data) ==
    [sender_id |-> Get(feedback_data, "sender_id", None),
     product_name |-> Get(feedback_data, "feedback_text", None),
     feedback_text |-> Get(feedback_data, "product_name", None),
     media_urls |-> Get(feedback_data, "media_urls", <<>>)]

\* save_feedback_data(feedback_data): the Feedback row added.
save_feedback_data(feedback_data) ==
    [sender_id |-> Get(feedback_data, "sender_id", None),
     product_name |-> Get(feedback_data, "product_name", None),
     feedback_text |-> Get(feedback_data, "feedback_text", None),
     media_urls |-> Get(feedback_data, "media_urls", <<>>)]

\* Lines 439-441 and download_media_files: relay every media reference, then
\* add and commit the row through self.db, or roll back and raise.
download_media_files(p) ==
    /\ pc[p] = "gather"
    /\ "download_media_files" \in tasks[p]
    /\ LET feedback_data == Put(FeedbackData(result[p]), "sender_id", sender_id[p])
       IN  \E relay_ok \in [1..Len(Get(feedback_data, "media_urls", <<>>)) -> BOOLEAN] :
             \/ /\ feedbacks' = Append(feedbacks,
                       save_feedback_data(FeedbackModelData(feedback_data, relay_ok)))
                /\ feedback_origin' = Append(feedback_origin,
                       [session |-> step1[p].resolved, db |-> db, relay |-> relay_ok,
                        request |-> p])
                /\ Finished(p, "download_media_files", "ok")
             \/ /\ UNCHANGED <<feedbacks, feedback_origin>>
                /\ Finished(p, "download_media_files", "raised")
    /\ UNCHANGED <<sessions, chats, db, cycles, pc, sender_id, session_id, step1, messages,
                   result, branch, classifier, reopen_decided>>

\* Lines 443-449: gather has every outcome, exceptions included; return.
reply_user_return_AllOk(p) ==
    /\ pc[p] = "gather"
    /\ tasks[p] = {}
    /\ \A t \in {"send_whatsapp_message", "save_chat_message", "download_media_files"} :
          ~(t \in DOMAIN outcome[p] /\ outcome[p][t] = "raised")
    /\ pc' = [pc EXCEPT ![p] = "returned"]
    /\ UNCHANGED <<store, db, cycles, sender_id, session_id, step1, messages, result, branch,
                   tasks, outcome, classifier, reopen_decided>>

reply_user_return(p) ==
    /\ pc[p] = "gather"
    /\ tasks[p] = {}
    /\ pc' = [pc EXCEPT ![p] = "returned"]
    /\ UNCHANGED <<store, db, cycles, sender_id, session_id, step1, messages, result, branch,
                   tasks, outcome, classifier, reopen_decided>>

\* Lines 445-449: the summary reply_user returns (the generated message_id
\* left out).
Summary(p) == [session_id |-> session_id[p], status |-> "sent"]

\* routes/reply.py lines 42-45: answer 200, or 500 when reply_user raised;
\* the request is over.
route_respond(p) ==
    /\ pc[p] \in {"returned", "raised"}
    /\ pc' = [pc EXCEPT ![p] = "idle"]
    /\ sender_id' = [sender_id EXCEPT ![p] = None]
    /\ session_id' = [session_id EXCEPT ![p] = 0]
    /\ step1' = [step1 EXCEPT ![p] = NoStep1]
    /\ messages' = [messages EXCEPT ![p] = <<>>]
    /\ result' = [result EXCEPT ![p] = EmptyDict]
    /\ branch' = [branch EXCEPT ![p] = None]
    /\ tasks' = [tasks EXCEPT ![p] = {}]
    /\ outcome' = [outcome EXCEPT ![p] = EmptyDict]
    /\ UNCHANGED <<store, db, cycles, classifier, reopen_decided>>

\* The transport (not part of this service) stores an inbound message of the
\* sender under one of the sender's active sessions.
InboundContents ==
    {[text |-> t, media_items |-> <<>>] : t \in InboundTexts}

transport_inbound(sid, content) ==
    /\ sid \in 1..Len(sessions)
    /\ sessions[sid].status = "active"
    /\ Len(SelectSeq(chats, LAMBDA c : c.chat_type = "inbound")) < MaxInbound
    /\ chats' = Append(chats,
                    [sender_id |-> sessions[sid].sender_id, session_id |-> sid,
                     chat_type |-> "inbound", text |-> content.text,
                     media_items |-> content.media_items])
    /\ UNCHANGED <<sessions, feedbacks, feedback_origin, db, cycles, cycle, classifier, reopen_decided>>

Step(p) ==
    \/ get_user_unresolved_session_message(p)
    \/ put_session(p)
    \/ await_analyze_conversation(p)
    \/ complete_session(p)
    \/ reopen_session(p)
    \/ limit_session(p)
    \/ reply_user_gather(p)
    \/ send_whatsapp_message(p)
    \/ save_chat_message(p)
    \/ download_media_files(p)
    \/ reply_user_return(p)
    \/ route_respond(p)

Inbound == \E sid \in 1..Len(sessions), c \in InboundContents : transport_inbound(sid, c)

\* Reply cycles one at a time, as a transport that serializes them drives the
\* service: it stores the inbound message, posts to /reply and waits for the
\* answer.  Which request slot serves a cycle is immaterial when cycles do
\* not overlap, so slot 1 serves them all.
Next ==
    \/ \E s \in Senders : InFlight = {} /\ route_reply_user(1, s)
    \/ \E p \in Procs : Step(p)
    \/ InFlight = {} /\ Inbound

Spec == Init /\ [][Next]_vars

\* The same service under a scheduler that lets every request take its next
\* step: each store, provider and messaging call returns or fails, and the
\* event loop resumes the coroutine that awaited it.
SpecLive == Spec /\ \A p \in Procs : WF_vars(Step(p))

\* ------------------------------------------- overlapping requests
\* One worker process serves requests as coroutines of one event loop over
\* the one ChatService that bootstrap_services built.  A coroutine runs until
\* it awaits: the classifier call (chat_service.py line 354) and the gather of
\* step 6 (line 443) are where another request can run; the store calls of
\* steps 1-4 are synchronous and keep the loop.
Suspended(q) == pc[q] \in {"idle", "analyze", "gather"}
MayRun(p) == \A q \in Procs \ {p} : Suspended(q)
FreeSlot(p) == pc[p] = "idle" /\ \A q \in Procs : q < p => pc[q] # "idle"

\* The decisions drawn for overlapping requests: those that raise no safety
\* flag (the suspension path is the same in every interleaving), a complete
\* one carrying none of the three added keys.
OverlapDecision(r) ==
    /\ \A f \in SafetyFlags : ~Get(r, f, FALSE)
    /\ IsComplete(r) =>
         DOMAIN r \cap {"should_persist_reply", "reopen_session", "user_limited_until"} = {}

NextConcurrent ==
    \/ \E p \in Procs, s \in Senders : FreeSlot(p) /\ MayRun(p) /\ route_reply_user(p, s)
    \/ \E p \in Procs :
         /\ MayRun(p)
         /\ Step(p)
         /\ pc[p] = "analyze" => OverlapDecision(result'[p])
    \/ InFlight = {} /\ Inbound

SpecConcurrent == Init /\ [][NextConcurrent]_vars

\* ------------------------------------------- the classifier on its own
\* analyze_conversation is a function of the history and of what the provider
\* answers to each attempt; this specification draws both and applies it.
ClassifierJson ==
    ModelJson(SUBSET SafetyFlags, BOOLEAN, BOOLEAN, {ModelTimestamp})
Histories ==
    {<<>>,
     <<[type |-> "text", text |-> Text("<user text>", 12), direction |-> "inbound"],
       [type |-> "media", url |-> TwilioRef("MM1", "ME1"), direction |-> "inbound"]>>,
     <<[type |-> "text", text |-> Text("<user text of 1000 characters>", 1000),
        direction |-> "inbound"]>>,
     <<[type |-> "text", text |-> Text("<user text of 1001 characters>", 1001),
        direction |-> "inbound"]>>,
     <<[type |-> "text", text |-> Text("<user text>", 12), direction |-> "inbound"],
       [type |-> "text", text |-> Text("<reply of 1001 characters>", 1001),
        direction |-> "outbound"]>>}
Failures == {RateLimitError, APIStatus429, APIStatus500, ConnectionError}
ClassifierRuns ==
    {Pad(first \o <<last>>) :
        first \in UNION {[1..k -> Failures] : k \in 0..(max_attempts - 1)},
        last \in Failures \cup {Response(FALSE, EmptyDict)}
                 \cup {Response(TRUE, j) : j \in ClassifierJson}}

InitClassifier ==
    /\ InitService
    /\ sessions = <<>>
    /\ given \in [messages : Histories, run : ClassifierRuns]
    /\ returned = EmptyDict

classify ==
    /\ DOMAIN given # {}
    /\ DOMAIN returned = {}
    /\ returned' = analyze_conversation(given.messages, given.run)
    /\ UNCHANGED <<store, db, cycles, cycle, given, reopen_decided>>

SpecClassifier == InitClassifier /\ [][classify]_vars

\* ================================================================ claims
Decided(p) == DOMAIN result[p] # {}
\* Step 4 is over: every session write of lines 371-376 has been made.
AfterStep4(p) == pc[p] \in {"reply_user", "gather", "returned"}
Ended(p, task, how) == task \in DOMAIN outcome[p] /\ outcome[p][task] = how
\* The feedback rows whose cycle resolved session sid in step 1.
RowsFrom(sid) == {i \in 1..Len(feedback_origin) : feedback_origin[i].session = sid}

\* C1: after any sequence of reply cycles run one at a time, whatever the
\* classifier decided in each, no sender has more than one active session
\* (stated where the last cycle of the sequence has returned its summary).
C1_AtMostOneActiveSession ==
    \A p \in Procs :
        pc[p] = "returned" =>
            \A s \in Senders : Cardinality(ActiveSessions(s)) <= 1

\* C2: when the decision has reopen_session true, then once step 4 is over the
\* session resolved in step 1 is completed and the cycle's current session
\* is another, active session of the same sender.
C2_ReopenClosesCurrentSession ==
    \A p \in Procs :
        (AfterStep4(p) /\ ReopenSession(result[p])) =>
            /\ sessions[step1[p].resolved].status = "completed"
            /\ session_id[p] # step1[p].resolved
            /\ sessions[session_id[p]].status = "active"
            /\ sessions[session_id[p]].sender_id = sender_id[p]

\* C3: step 1 creates a session only when the sender has no active session;
\* an active session, with or without chat messages, newest or not, is reused.
C3_CreatesOnlyWithoutActiveSession ==
    \A p \in Procs : step1[p].created => ~step1[p].had_active

\* C4: when a sender without any session starts a cycle, then at the moment the
\* classifier is invoked exactly one session of that sender exists, it is
\* active, it is the cycle's session and it was created by this cycle, and the
\* classifier is given the empty history.
C4_NewSenderGetsOneSessionBeforeClassifier ==
    \A p \in Procs :
        (pc[p] = "analyze" /\ ~step1[p].had_session) =>
            /\ step1[p].created
            /\ SenderSessions(sender_id[p]) = {session_id[p]}
            /\ ActiveSessions(sender_id[p]) = {session_id[p]}
            /\ messages[p] = <<>>
C4_Witness ==
    \E p \in Procs : pc[p] = "analyze" /\ ~step1[p].had_session /\ step1[p].created
                     /\ Len(sessions) = 2

\* C5: when the model's parsed answer has one of the four safety flags true,
\* the decision returned has the suspension notice as reply,
\* should_persist_reply false, reopen_session true and user_limited_until set
\* to now + 1 minute, whatever the model wrote in those keys; when none of the
\* four is true the model's answer is returned unchanged.
C5_SafetyOverride ==
    \A i \in 1..max_attempts :
        (DOMAIN returned # {} /\ returned.calls = i
         /\ returned.kind \in {"model", "suspended"}) =>
            LET json == given.run[i].json
                r == returned.result
            IN  IF json.is_x_rated_conversation \/ json.is_crime_rated_conversation
                   \/ json.is_immoral_conversation \/ json.is_irrelevant
                THEN /\ r.reply = SuspensionNotice
                     /\ r.should_persist_reply = FALSE
                     /\ r.reopen_session = TRUE
                     /\ r.user_limited_until = NowPlusOneMinute
                ELSE r = json
C5_Witness ==
    /\ DOMAIN returned # {}
    /\ returned.kind = "suspended"
    /\ returned.calls = 1
    /\ Get(given.run[1].json, "should_persist_reply", FALSE)
    /\ ~Get(given.run[1].json, "reopen_session", TRUE)
    /\ Get(given.run[1].json, "user_limited_until", None) = ModelTimestamp
    /\ ~given.run[1].json.is_x_rated_conversation
    /\ given.run[1].json.is_irrelevant

\* C6: when the decision has is_feedback_session_complete true, the session
\* resolved in step 1 is completed once step 4 is over, whether or not the
\* decision also reopens or limits.
C6_CompleteMarksResolvedSession ==
    \A p \in Procs :
        (AfterStep4(p) /\ IsComplete(result[p])) =>
            sessions[step1[p].resolved].status = "completed"
C6_Witness ==
    \E p \in Procs :
        /\ pc[p] = "returned" /\ IsComplete(result[p])
        /\ ReopenSession(result[p]) /\ UserLimitedUntil(result[p]) # None
        /\ sessions[step1[p].resolved].status = "completed"

\* C7: the feedback row written by a cycle whose decision has
\* is_feedback_session_complete true carries the cycle's sender, the
\* decision's product_name and the decision's feedback.
C7_FeedbackRowMatchesDecision ==
    \A p \in Procs :
        Ended(p, "download_media_files", "ok") =>
            LET row == feedbacks[Len(feedbacks)]
            IN  /\ IsComplete(result[p])
                /\ row.sender_id = sender_id[p]
                /\ row.product_name = result[p].product_name
                /\ row.feedback_text = result[p].feedback
C7_Witness ==
    \E p \in Procs :
        /\ Ended(p, "download_media_files", "ok")
        /\ Len(feedbacks) = 2
        /\ feedbacks[1].sender_id # feedbacks[2].sender_id
        /\ feedbacks[2].product_name = "AirPods Pro"

\* C8: every media URL of every feedback row is an object-storage URL built by
\* a relay that succeeded; a reference from the decision's media_urls is
\* never stored, whichever relays fail.
C8_OnlyDurableMediaUrls ==
    \A i \in 1..Len(feedbacks) :
        \A k \in 1..Len(feedbacks[i].media_urls) :
            /\ IsDurableUrl(feedbacks[i].media_urls[k])
            /\ feedbacks[i].media_urls[k] \notin MediaRefs
C8_Witness ==
    \E p \in Procs :
        /\ Ended(p, "download_media_files", "ok")
        /\ Len(result[p].media_urls) = 2
        /\ Len(feedbacks[Len(feedbacks)].media_urls) = 1

C10_FeedbackRowExactlyWhenComplete ==
    \A p \in Procs :
        (pc[p] = "returned" /\ Decided(p)) =>
            IF IsComplete(result[p])
               /\ sessions[step1[p].resolved].status = "completed"
            THEN RowsFrom(step1[p].resolved) # {}
            ELSE RowsFrom(step1[p].resolved) = {}

\* C10, amended: a cycle whose decision has is_feedback_session_complete false
\* stores no feedback row; a cycle whose decision has it true stores exactly
\* one when it returns with the feedback task ended well, and none when the
\* feedback task raised or a session write of step 4 raised.
C10_FeedbackRowWhenCompleteAndSaved ==
    \A p \in Procs :
        Decided(p) =>
            LET mine == RowsFrom(step1[p].resolved)
            IN  /\ ~IsComplete(result[p]) => mine = {}
                /\ (IsComplete(result[p]) /\ pc[p] = "returned") =>
                       /\ "download_media_files" \in DOMAIN outcome[p]
                       /\ Ended(p, "download_media_files", "ok")
                              => Cardinality(mine) = 1
                       /\ Ended(p, "download_media_files", "raised") => mine = {}
                /\ pc[p] = "raised" => mine = {}
C10_Witness ==
    \E p \in Procs :
        /\ pc[p] = "returned" /\ IsComplete(result[p])
        /\ Ended(p, "download_media_files", "ok")
        /\ Cardinality(RowsFrom(step1[p].resolved)) = 1
        /\ cycles = 2

\* ------------------------------------------------- claims on the classifier
Classified == DOMAIN returned # {}
HasLongText(msgs) ==
    \E i \in 1..Len(msgs) : msgs[i].type = "text" /\ msgs[i].text.length > 1000
HasLongInboundText(msgs) ==
    \E i \in 1..Len(msgs) :
        /\ msgs[i].type = "text" /\ msgs[i].direction = "inbound"
        /\ msgs[i].text.length > 1000
NoFlagSet(r) ==
    /\ ~r.is_x_rated_conversation /\ ~r.is_crime_rated_conversation
    /\ ~r.is_immoral_conversation /\ ~r.is_irrelevant
IsRateLimit(o) == o.kind # "response" /\ o.status_code = 429
IsOtherError(o) == o.kind # "response" /\ o.status_code # 429

\* C11: for a history holding a text entry of more than 1000 characters the
\* classifier makes no model call and returns the message-too-long decision:
\* its fixed reply, should_persist_reply true, is_feedback_session_complete
\* false and no safety flag.
C11_TooLongDecisionWithoutModelCall ==
    (Classified /\ HasLongText(given.messages)) =>
        /\ returned.calls = 0
        /\ returned.result.reply = TooLongReply
        /\ returned.result.should_persist_reply = TRUE
        /\ returned.result.is_feedback_session_complete = FALSE
        /\ NoFlagSet(returned.result)
        /\ DOMAIN returned.result \cap {"reopen_session", "user_limited_until"} = {}
C11_Witness ==
    /\ Classified /\ HasLongText(given.messages)
    /\ ~HasLongInboundText(given.messages)
    /\ given.run[1].kind = "response" /\ given.run[1].parseable
    /\ returned.calls = 0

\* C12: a history whose inbound text entries all have at most 1000 characters
\* is passed to the model (at least one model call is made), even when an
\* outbound text entry is longer.
C12_PreFilterInboundOnly ==
    (Classified /\ ~HasLongInboundText(given.messages)) => returned.calls >= 1

\* C13: one invocation calls the model at most 3 times, every call but the
\* last was answered with a rate-limit error, and when attempts 1 and 2 are
\* rate limited and attempt 3 gives a parseable answer the decision returned
\* is built from that answer, not the fallback.
C13_BoundedRetryOnRateLimit ==
    Classified =>
        /\ returned.calls <= 3
        /\ \A i \in 1..(returned.calls - 1) : IsRateLimit(given.run[i])
        /\ (/\ ~HasLongText(given.messages)
            /\ IsRateLimit(given.run[1]) /\ IsRateLimit(given.run[2])
            /\ given.run[3].kind = "response" /\ given.run[3].parseable) =>
               LET json == given.run[3].json
               IN  /\ returned.calls = 3
                   /\ returned.result.reply # FailedReply
                   /\ returned.result.product_name = json.product_name
                   /\ returned.result.feedback = json.feedback
                   /\ returned.result.media_urls = json.media_urls
                   /\ returned.result.is_feedback_session_complete
                          = json.is_feedback_session_complete
                   /\ NoFlagSet(json) => returned.result = json
C13_Witness ==
    /\ Classified /\ returned.calls = 3
    /\ given.run[1].kind = "RateLimitError" /\ given.run[2].kind = "APIStatusError"
    /\ given.run[3].kind = "response" /\ given.run[3].parseable
    /\ returned.result.reply = ModelReply
    /\ returned.result.is_feedback_session_complete

\* C14: the classifier always returns a decision; a provider error other than
\* rate limiting ends the attempts (it is the last call, the only one when it
\* comes first); and after such an error, after rate limiting on all 3
\* attempts, or after an answer that does not parse, the decision returned is
\* the fallback: the generic error reply, should_persist_reply false,
\* is_feedback_session_complete false, no safety flag.
C14_FailuresGiveFallback ==
    (Classified /\ ~HasLongText(given.messages)) =>
        LET last == given.run[returned.calls]
        IN  /\ returned.calls \in 1..3
            /\ \A i \in 1..3 :
                   (IsOtherError(given.run[i]) /\ returned.calls >= i) => returned.calls = i
            /\ IsOtherError(given.run[1]) => returned.calls = 1
            /\ (\/ IsOtherError(last)
                \/ returned.calls = 3 /\ IsRateLimit(last)
                \/ last.kind = "response" /\ ~last.parseable) =>
                   /\ returned.result.reply = FailedReply
                   /\ returned.result.should_persist_reply = FALSE
                   /\ returned.result.is_feedback_session_complete = FALSE
                   /\ NoFlagSet(returned.result)
                   /\ DOMAIN returned.result
                          \cap {"reopen_session", "user_limited_until"} = {}
            /\ (last.kind # "response" /\ IsRateLimit(last)) => returned.calls = 3
C14_Witness ==
    /\ Classified /\ returned.calls = 2
    /\ IsRateLimit(given.run[1]) /\ given.run[2] = APIStatus500
    /\ given.run[3].kind = "response" /\ given.run[3].parseable
    /\ returned.result.reply = FailedReply

\* ---------------------------------------------------- claims on step 4 and 6
Started(p, task) == task \in tasks[p] \cup DOMAIN outcome[p]
InStep6(p) == pc[p] \in {"gather", "returned"}
\* The outbound chat row this cycle writes.
OutboundRow(p) ==
    [sender_id |-> sender_id[p], session_id |-> session_id[p], chat_type |-> "outbound",
     text |-> Get(result[p], "reply", NoText), media_items |-> <<>>]
Outbound(tbl) == SelectSeq(tbl, LAMBDA c : c.chat_type = "outbound")
Persists(r) == Get(r, "should_persist_reply", TRUE)

\* C15: a cycle whose outbound send failed does not return its summary (with
\* status sent); it raises towards its caller.
C15_SendFailureEscalates ==
    \A p \in Procs :
        Ended(p, "send_whatsapp_message", "raised") =>
            ~(pc[p] = "returned" /\ Summary(p).status = "sent")

\* C16: when the persist-reply write or the persist-feedback task of step 6
\* fails, the cycle does not raise, every other side effect of the cycle is
\* started and has its own outcome when the cycle returns its summary, and
\* what the cycle has written (the completed session, the chat row, the
\* feedback row) stays written.
C16_Step6FailuresIsolated ==
    \A p \in Procs :
        (\/ Ended(p, "save_chat_message", "raised")
         \/ Ended(p, "download_media_files", "raised")) =>
            /\ InStep6(p)
            /\ Started(p, "send_whatsapp_message")
            /\ Persists(result[p]) => Started(p, "save_chat_message")
            /\ IsComplete(result[p]) => Started(p, "download_media_files")
            /\ pc[p] = "returned" => (tasks[p] = {} /\ Summary(p).status = "sent")
            /\ Ended(p, "save_chat_message", "ok") =>
                   (Len(chats) > 0 /\ chats[Len(chats)] = OutboundRow(p))
            /\ Ended(p, "download_media_files", "ok") => RowsFrom(step1[p].resolved) # {}
            /\ IsComplete(result[p]) => sessions[step1[p].resolved].status = "completed"
C16_Witness ==
    \E p \in Procs :
        /\ pc[p] = "returned"
        /\ Ended(p, "save_chat_message", "raised")
        /\ Ended(p, "download_media_files", "ok")
        /\ Ended(p, "send_whatsapp_message", "ok")
        /\ RowsFrom(step1[p].resolved) # {}

\* C17, as claimed: a cycle that returns has written its outbound chat row if
\* and only if the decision's should_persist_reply is true.
C17_ChatRowIffPersist ==
    \A p \in Procs :
        pc[p] = "returned" =>
            (Persists(result[p]) <=> (Len(chats) > 0 /\ chats[Len(chats)] = OutboundRow(p)))

\* C17, amended: an outbound chat row is written only by a cycle whose
\* decision has should_persist_reply true (the default when the key is
\* absent), never by one whose decision tripped a safety flag or is the
\* fallback; a cycle with should_persist_reply true that returns has attempted
\* the write, and the row is there when the write did not fail.
C17_StateOfChatRow ==
    \A p \in Procs :
        InStep6(p) =>
            /\ ~Persists(result[p]) => ~Started(p, "save_chat_message")
            /\ branch[p] \in {"suspended", "fallback"} => ~Started(p, "save_chat_message")
            /\ (Persists(result[p]) /\ pc[p] = "returned") =>
                   "save_chat_message" \in DOMAIN outcome[p]
            /\ Ended(p, "save_chat_message", "ok") =>
                   (Len(chats) > 0 /\ chats[Len(chats)] = OutboundRow(p))
C17_WriteOfChatRow ==
    Outbound(chats') # Outbound(chats) =>
        \E p \in Procs :
            /\ pc[p] = "gather"
            /\ Persists(result[p])
            /\ branch[p] \notin {"suspended", "fallback"}
            /\ ~Ended(p, "save_chat_message", "ok")
            /\ outcome'[p] = Put(outcome[p], "save_chat_message", "ok")
            /\ chats' = Append(chats, OutboundRow(p))
C17_ChatRowOnlyWhenPersistAndSaved ==
    []C17_StateOfChatRow /\ [][C17_WriteOfChatRow]_vars
C17_Witness ==
    \E p \in Procs :
        /\ pc[p] = "returned" /\ branch[p] = "too_long"
        /\ Ended(p, "save_chat_message", "ok")
        /\ chats[Len(chats)].text = TooLongReply

\* C18: when the decision carries user_limited_until, then once step 4 is
\* over that value stands on the cycle's current session: the session opened
\* by the reopen when reopen_session is true, the resolved session otherwise,
\* whatever is_feedback_session_complete and reopen_session are.
C18_LimitWrittenOnCurrentSession ==
    \A p \in Procs :
        (AfterStep4(p) /\ Get(result[p], "user_limited_until", None) # None) =>
            /\ sessions[session_id[p]].user_limited_until = result[p].user_limited_until
            /\ sessions[session_id[p]].sender_id = sender_id[p]
            /\ IF Get(result[p], "reopen_session", FALSE)
               THEN session_id[p] > step1[p].resolved
               ELSE session_id[p] = step1[p].resolved
C18_Witness ==
    \E p \in Procs :
        /\ pc[p] = "returned"
        /\ result[p].is_feedback_session_complete
        /\ Get(result[p], "reopen_session", FALSE)
        /\ session_id[p] # step1[p].resolved
        /\ sessions[session_id[p]].user_limited_until = NowPlusOneMinute
        /\ sessions[step1[p].resolved].user_limited_until = None

\* C19: when the decision has reopen_session true, the session id of the
\* outbound chat row (when one is written) and of the summary returned is
\* the id of the session the reopen opened, never the id resolved in step 1.
C19_NewSessionIdGoesForward ==
    \A p \in Procs :
        (InStep6(p) /\ Get(result[p], "reopen_session", FALSE)) =>
            /\ session_id[p] > step1[p].resolved
            /\ sessions[session_id[p]].sender_id = sender_id[p]
            /\ sessions[session_id[p]].status = "active"
            /\ pc[p] = "returned" => Summary(p).session_id # step1[p].resolved
            /\ Ended(p, "save_chat_message", "ok") =>
                   /\ chats[Len(chats)].chat_type = "outbound"
                   /\ chats[Len(chats)].session_id = session_id[p]
                   /\ chats[Len(chats)].session_id # step1[p].resolved
C19_Witness ==
    \E p \in Procs :
        /\ pc[p] = "returned" /\ Get(result[p], "reopen_session", FALSE)
        /\ Ended(p, "save_chat_message", "ok")
        /\ chats[Len(chats)].session_id = Summary(p).session_id
        /\ step1[p].resolved = 1 /\ Summary(p).session_id = 2

\* C20: a relay that fails gives no URL and raises nothing, the other
\* references of the batch are relayed all the same, and the feedback row is
\* written with exactly the object-storage URLs of the references whose
\* relay succeeded, in their order.
RelayedUrl(ref) == <<"s3.amazonaws.com/feedback-media", ref[2], ref[3]>>
RECURSIVE Succeeded(_, _, _)
Succeeded(refs, ok, i) ==
    IF i > Len(refs) THEN <<>>
    ELSE (IF ok[i] THEN <<RelayedUrl(refs[i])>> ELSE <<>>) \o Succeeded(refs, ok, i + 1)
C20_RelayFailuresIsolated ==
    \A p \in Procs :
        Ended(p, "download_media_files", "ok") =>
            LET n == Len(feedbacks)
                refs == Get(result[p], "media_urls", <<>>)
                ok == feedback_origin[n].relay
            IN  /\ n > 0
                /\ DOMAIN ok = 1..Len(refs)
                /\ feedbacks[n].media_urls = Succeeded(refs, ok, 1)
C20_Witness ==
    \E p \in Procs :
        /\ Ended(p, "download_media_files", "ok")
        /\ Len(result[p].media_urls) = 2
        /\ feedback_origin[Len(feedbacks)].relay = <<FALSE, TRUE>>
        /\ feedbacks[Len(feedbacks)].media_urls = <<RelayedUrl(result[p].media_urls[2])>>

\* ------------------------------------------------ claims on overlap and order
\* C21, its serialized half: with cycles run one at a time, as long as no
\* decision has had reopen_session true no sender has two active sessions.
C21_SerializedWithoutReopenOneActive ==
    ~reopen_decided => \A s \in Senders : Cardinality(ActiveSessions(s)) <= 1

\* C22: under any interleaving of two overlapping reply cycles, the handle a
\* cycle writes its FeedbackRecord through is the handle the route supplied
\* for that cycle's own request.
C22_OwnHandle ==
    \A i \in 1..Len(feedback_origin) : feedback_origin[i].db = feedback_origin[i].request

\* C23: in a cycle the session is resolved and the history loaded before the
\* classifier is invoked, the session writes of step 4 come after the
\* decision, and no side effect of step 6 is started before every session
\* write the decision asks for has been made; once one is started the
\* sessions table is written no more.
SideEffects(p) == tasks[p] \cup DOMAIN outcome[p]
InStep4(p) == pc[p] \in {"mark_completed", "reopen", "mark_limited"}
C23_StateOfOrder ==
    \A p \in Procs :
        /\ pc[p] \in {"get_session", "put_session"} =>
               (~Decided(p) /\ SideEffects(p) = {})
        /\ pc[p] = "analyze" =>
               /\ ~Decided(p) /\ SideEffects(p) = {}
               /\ session_id[p] \in 1..Len(sessions)
               /\ messages[p] = Transformed(SessionChats(session_id[p]))
        /\ InStep4(p) => (Decided(p) /\ SideEffects(p) = {})
        /\ SideEffects(p) # {} =>
               /\ Decided(p)
               /\ Get(result[p], "is_feedback_session_complete", FALSE) =>
                      sessions[step1[p].resolved].status = "completed"
               /\ Get(result[p], "reopen_session", FALSE) =>
                      session_id[p] > step1[p].resolved
               /\ Get(result[p], "user_limited_until", None) # None =>
                      sessions[session_id[p]].user_limited_until
                          = result[p].user_limited_until
C23_StepsInOrder ==
    /\ sessions' # sessions =>
           \E p \in Procs :
               /\ SideEffects(p) = {}
               /\ \/ pc[p] = "put_session" /\ ~Decided(p)
                  \/ InStep4(p) /\ Decided(p)
    /\ \A p \in Procs :
           (~Decided(p) /\ DOMAIN result'[p] # {}) =>
               (pc[p] = "analyze" /\ session_id[p] # 0)
    /\ \A p \in Procs :
           (SideEffects(p) = {} /\ tasks'[p] # {}) => pc[p] = "reply_user"
C23_SequentialThroughStep4 ==
    []C23_StateOfOrder /\ [][C23_StepsInOrder]_vars
C23_Witness ==
    \E p \in Procs :
        /\ pc[p] = "gather" /\ tasks[p] = {"send_whatsapp_message", "download_media_files"}
        /\ outcome[p] = EmptyDict
        /\ Get(result[p], "reopen_session", FALSE)
        /\ sessions[step1[p].resolved].status = "completed"
        /\ sessions[session_id[p]].user_limited_until = NowPlusOneMinute

C24_StateOfSend ==
    \A p \in Procs :
        /\ InStep6(p) => Started(p, "send_whatsapp_message")
        /\ pc[p] = "returned" => "send_whatsapp_message" \in DOMAIN outcome[p]
        /\ pc[p] = "raised" => ~Started(p, "send_whatsapp_message")
        /\ "send_whatsapp_message" \in DOMAIN outcome[p] =>
               /\ outcome[p].reply_message = result[p].reply
               /\ branch[p] = "model" => outcome[p].reply_message = ModelReply
               /\ branch[p] = "suspended" => outcome[p].reply_message = SuspensionNotice
               /\ branch[p] = "too_long" => outcome[p].reply_message = TooLongReply
               /\ branch[p] = "fallback" => outcome[p].reply_message = FailedReply
C24_SendAttemptedOnce ==
    \A p \in Procs :
        ("send_whatsapp_message" \in DOMAIN outcome[p] /\ pc'[p] # "idle") =>
            /\ "send_whatsapp_message" \notin tasks'[p]
            /\ outcome'[p].send_whatsapp_message = outcome[p].send_whatsapp_message
            /\ outcome'[p].reply_message = outcome[p].reply_message
C25_CycleEnds ==
    \A p \in Procs : (pc[p] = "get_session") ~> (pc[p] \in {"returned", "raised"})
C25_Witness ==
    \E p \in Procs :
        /\ pc[p] = "returned" /\ cycles = 2
        /\ Ended(p, "save_chat_message", "raised")

C27_StateOfFallback ==
    \A p \in Procs :
        branch[p] = "fallback" =>
            /\ session_id[p] = step1[p].resolved
            /\ ~InStep4(p)
            /\ SideEffects(p) \subseteq {"send_whatsapp_message", "reply_message"}
            /\ InStep6(p) => Started(p, "send_whatsapp_message")
C27_FallbackWritesNothing ==
    (\E p \in Procs : branch[p] = "fallback" \/ branch'[p] = "fallback") =>
        UNCHANGED <<sessions, chats, feedbacks, feedback_origin>>
C27_FallbackLeavesStateUnchanged ==
    []C27_StateOfFallback /\ [][C27_FallbackWritesNothing]_vars
C27_Witness ==
    \E p \in Procs :
        /\ pc[p] = "returned" /\ branch[p] = "fallback" /\ step1[p].created
        /\ Ended(p, "send_whatsapp_message", "ok")
        /\ sessions[step1[p].resolved].status = "active"
        /\ Outbound(chats) = <<>> /\ feedbacks = <<>>

\* C28: a cycle raises in steps 1 to 4 only, on a session-store call; the
\* step that raises and the raised cycle write nothing and undo nothing, and
\* a raised cycle has started no side effect of step 6.
C28_StateOfRaised ==
    \A p \in Procs : pc[p] = "raised" => SideEffects(p) = {}
C28_RaiseUndoesNothing ==
    \A p \in Procs :
        /\ (pc'[p] = "raised" /\ pc[p] # "raised") =>
               /\ pc[p] = "get_session" \/ pc[p] = "put_session" \/ InStep4(p)
               /\ UNCHANGED <<sessions, chats, feedbacks, feedback_origin>>
        /\ pc[p] = "raised" => UNCHANGED <<sessions, chats, feedbacks, feedback_origin>>
C28_StoreFailureRaisesBeforeStep6 ==
    []C28_StateOfRaised /\ [][C28_RaiseUndoesNothing]_vars
C28_Witness ==
    \E p \in Procs :
        /\ pc[p] = "raised"
        /\ Get(result[p], "is_feedback_session_complete", FALSE)
        /\ sessions[step1[p].resolved].status = "completed"
        /\ RowsFrom(step1[p].resolved) = {}
        /\ Outbound(chats) = <<>>
====
